---- MODULE Spec2Model ----
(***************************************************************************)
(* A model of the indexing surface of twic's Value (src/src/value.rs and   *)
(* src/src/value/index.rs): the IndexInto implementations for usize, str   *)
(* and String, the Value::get / get_mut / get_or_insert methods and the    *)
(* Index / IndexMut operator implementations.                              *)
(*                                                                         *)
(* A Value is a record tagged by `kind`; a Vector holds a sequence of      *)
(* Values, a Map (a BTreeMap<String, Value>) a function from its key set   *)
(* to Values.  A reference into the tree is the path of steps from the     *)
(* root to the element it designates.  usize is modelled by the naturals:  *)
(* the indexes tried stay far below the width of the type and below the    *)
(* largest vector that can be allocated.                                   *)
(*                                                                         *)
(* The second part is a model of Number (src/src/value/number.rs, its      *)
(* utils.rs and impls.rs): construction from the native integers, the      *)
(* fits_in_<T>, get_<T>, as_<T>_exact and as_<T> conversions, equality and *)
(* Debug.  Every width of the source is scaled by WordBits / 64 and the    *)
(* precision of the floats with it, so that the boundaries of the types,   *)
(* the sign extension, the rounding and the saturation of the casts are    *)
(* all within the values TLC enumerates.                                   *)
(***************************************************************************)
EXTENDS Integers, Sequences, FiniteSets, TLC

VARIABLES
    root,    \* the Value tree the caller owns
    cursor,  \* path of the element the caller holds a &mut to (<<>>: the root)
    pre,     \* the root as it was before the last call
    out,     \* the last call and what it returned
    calls,   \* the number of calls made so far
    num,     \* the Number the caller holds
    nout     \* the last Number method called and what it returned

vars == <<root, cursor, pre, out, calls, num, nout>>

-----------------------------------------------------------------------------
(* Bounds of the model.                                                    *)

\* the largest vector position a call is made with
MaxIdx == 4
\* the largest number of calls the caller makes on one Value
MaxCalls == 3
\* the width of the model's u64 and i64: every width of the source is
\* scaled by WordBits / 64, so that u128 and i128 have 2 * WordBits bits
WordBits == 5
\* the precision (significant bits) of the model's f64, below WordBits as
\* 53 is below 64; the model's f32 has one bit less
MantBits == 3
\* the number of fractional binary digits of the model's floats
FracBits == 1

-----------------------------------------------------------------------------
(* Values.                                                                 *)

Null == [kind |-> "null"]
Boolean(b) == [kind |-> "boolean", b |-> b]
Number(n) == [kind |-> "number", n |-> n]
String(s) == [kind |-> "string", s |-> s]
Vector(items) == [kind |-> "vector", items |-> items]
Map(m) == [kind |-> "map", m |-> m]

is_null(self) == self.kind = "null"
is_boolean(self) == self.kind = "boolean"
is_number(self) == self.kind = "number"
is_string(self) == self.kind = "string"
is_vector(self) == self.kind = "vector"
is_map(self) == self.kind = "map"

type_name(self) ==
    CASE self.kind = "null" -> "null"
      [] self.kind = "boolean" -> "boolean"
      [] self.kind = "number" -> "number"
      [] self.kind = "string" -> "string"
      [] self.kind = "vector" -> "vector"
      [] self.kind = "map" -> "map"

\* Map::new(): the map with no key
Map_new == [k \in {} |-> Null]

vector_empty == Vector(<<>>)
map_empty == Map(Map_new)
\* Value::vector_from(iter) over integers: each item converted by Into<Value>
vector_from(ns) == Vector([j \in 1..Len(ns) |-> Number(ns[j])])

-----------------------------------------------------------------------------
(* Indexes, results and references.                                        *)

\* the three index types that implement IndexInto by themselves
Usize(i) == [t |-> "usize", i |-> i, k |-> ""]
Str(k) == [t |-> "str", i |-> 0, k |-> k]
StringIdx(k) == [t |-> "String", i |-> 0, k |-> k]

\* one step of a reference: a vector position or a map key
Pos(i) == [t |-> "pos", i |-> i, k |-> ""]
Key(k) == [t |-> "key", i |-> 0, k |-> k]
NoStep == [t |-> "none", i |-> 0, k |-> ""]

\* enum ValueIndexError
NotIndexable == "NotIndexable"
IncompatibleIndexType == "IncompatibleIndexType"
KeyNotFound == "KeyNotFound"
ValueIndexError == {NotIndexable, IncompatibleIndexType, KeyNotFound}

\* Result<&Value, ValueIndexError>: the reference is the step from the
\* indexed Value to the element
Ok(step) == [tag |-> "Ok", err |-> "", step |-> step]
Err(e) == [tag |-> "Err", err |-> e, step |-> NoStep]
\* a panic (unwinding out of the call) with its message
Panic(msg) == [tag |-> "Panic", err |-> msg, step |-> NoStep]

\* Option<&Value>
Some(step) == [tag |-> "Some", err |-> "", step |-> step]
None == [tag |-> "None", err |-> "", step |-> NoStep]

\* Result::ok
ok(r) == IF r.tag = "Ok" THEN Some(r.step) ELSE IF r.tag = "Err" THEN None ELSE r

\* Option::ok_or
ok_or(o, e) == IF o.tag = "Some" THEN Ok(o.step) ELSE Err(e)

\* the element of v a step designates
Child(v, step) ==
    IF step.t = "pos" THEN v.items[step.i + 1] ELSE v.m[step.k]

HasChild(v, step) ==
    \/ step.t = "pos" /\ is_vector(v) /\ step.i < Len(v.items)
    \/ step.t = "key" /\ is_map(v) /\ step.k \in DOMAIN v.m

\* v with the element a step designates replaced by x
SetChild(v, step, x) ==
    IF step.t = "pos"
    THEN Vector([v.items EXCEPT ![step.i + 1] = x])
    ELSE Map([v.m EXCEPT ![step.k] = x])

RECURSIVE At(_, _)
At(v, path) ==
    IF path = <<>> THEN v ELSE At(Child(v, Head(path)), Tail(path))

RECURSIVE Put(_, _, _)
Put(v, path, x) ==
    IF path = <<>> THEN x
    ELSE SetChild(v, Head(path), Put(Child(v, Head(path)), Tail(path), x))

-----------------------------------------------------------------------------
(* impl IndexInto for usize, str, String.                                  *)

\* core::iter::repeat_n(x, n) collected
repeat_n(x, n) == [j \in 1..n |-> x]

\* Vec::get / Vec::get_mut
Vec_get(vec, i) == IF i < Len(vec) THEN Some(Pos(i)) ELSE None

\* BTreeMap::get / BTreeMap::get_mut
Map_get(map, k) == IF k \in DOMAIN map THEN Some(Key(k)) ELSE None

\* mutant: BTreeMap::insert(k, x), which replaces the entry of a present key
Map_insert(map, k, x) ==
    [j \in DOMAIN map \cup {k} |-> IF j = k THEN x ELSE map[j]]

\* BTreeMap::entry(k).or_insert(x): the map afterwards
Map_entry_or_insert(map, k, x) ==
    IF k \in DOMAIN map THEN map
    ELSE [j \in DOMAIN map \cup {k} |-> IF j = k THEN x ELSE map[j]]

\* mutant: the `else if value.is_map()` arm left out
usize_index_into_nomapcheck(self, value) ==
    IF is_vector(value)
    THEN ok_or(Vec_get(value.items, self), KeyNotFound)
    ELSE Err(NotIndexable)

usize_index_into(self, value) ==
    IF is_vector(value)
    THEN ok_or(Vec_get(value.items, self), KeyNotFound)
    ELSE IF is_map(value) THEN Err(IncompatibleIndexType)
    ELSE Err(NotIndexable)

\* mutant: the `else if value.is_map()` arm left out
usize_index_into_mut_nomapcheck(self, value) ==
    IF is_vector(value)
    THEN ok_or(Vec_get(value.items, self), KeyNotFound)
    ELSE Err(NotIndexable)

usize_index_into_mut(self, value) ==
    IF is_vector(value)
    THEN ok_or(Vec_get(value.items, self), KeyNotFound)
    ELSE IF is_map(value) THEN Err(IncompatibleIndexType)
    ELSE Err(NotIndexable)

\* mutant: the extension one element short (`self - vec.len()`)
usize_extend_short(self, vec) ==
    IF self >= Len(vec) THEN vec \o repeat_n(Null, self - Len(vec)) ELSE vec

\* mutant: `vec.resize(self + 1, Value::Null)`, which truncates a longer vector
usize_extend_resize(self, vec) ==
    IF self >= Len(vec) THEN vec \o repeat_n(Null, self - Len(vec) + 1)
    ELSE SubSeq(vec, 1, self + 1)

\* what `vec.extend(repeat_n(Value::Null, self - vec.len() + 1))` leaves in
\* the vector when self >= vec.len()
usize_extend(self, vec) ==
    IF self >= Len(vec) THEN vec \o repeat_n(Null, self - Len(vec) + 1) ELSE vec

\* mutant: the extension one element short, then a checked access
usize_index_into_or_insert_partial(self, value) ==
    IF is_vector(value)
    THEN LET vec == usize_extend_short(self, value.items) IN
         [res |-> ok_or(Vec_get(vec, self), KeyNotFound), value |-> Vector(vec)]
    ELSE IF is_map(value) THEN [res |-> Err(IncompatibleIndexType), value |-> value]
    ELSE [res |-> Err(NotIndexable), value |-> value]

\* the result and the Value afterwards; `&mut vec[*self]` panics out of bounds
usize_index_into_or_insert(self, value) ==
    IF is_vector(value)
    THEN LET vec == usize_extend(self, value.items) IN
         [res |-> IF self < Len(vec) THEN Ok(Pos(self))
                  ELSE Panic("index out of bounds"),
          value |-> Vector(vec)]
    ELSE IF is_map(value) THEN [res |-> Err(IncompatibleIndexType), value |-> value]
    ELSE [res |-> Err(NotIndexable), value |-> value]

str_index_into(self, value) ==
    IF is_map(value)
    THEN ok_or(Map_get(value.m, self), KeyNotFound)
    ELSE IF is_vector(value) THEN Err(IncompatibleIndexType)
    ELSE Err(NotIndexable)

str_index_into_mut(self, value) ==
    IF is_map(value)
    THEN ok_or(Map_get(value.m, self), KeyNotFound)
    ELSE IF is_vector(value) THEN Err(IncompatibleIndexType)
    ELSE Err(NotIndexable)

\* mutant: the placeholder is an empty Map instead of Null
str_index_into_or_insert_vivify(self, value) ==
    IF is_map(value)
    THEN [res |-> Ok(Key(self)),
          value |-> Map(Map_entry_or_insert(value.m, self, map_empty))]
    ELSE IF is_vector(value) THEN [res |-> Err(IncompatibleIndexType), value |-> value]
    ELSE [res |-> Err(NotIndexable), value |-> value]

\* mutant: the body of index_into_mut, which does not insert
str_index_into_or_insert_nocreate(self, value) ==
    [res |-> str_index_into_mut(self, value), value |-> value]

\* mutant: a Null indexed by a key becomes a Map that holds the key
str_index_into_or_insert_autoviv(self, value) ==
    IF is_map(value) \/ is_null(value)
    THEN [res |-> Ok(Key(self)),
          value |-> Map(Map_entry_or_insert(
                        IF is_map(value) THEN value.m ELSE Map_new, self, Null))]
    ELSE IF is_vector(value) THEN [res |-> Err(IncompatibleIndexType), value |-> value]
    ELSE [res |-> Err(NotIndexable), value |-> value]

str_index_into_or_insert(self, value) ==
    IF is_map(value)
    THEN [res |-> Ok(Key(self)),
          value |-> Map(Map_entry_or_insert(value.m, self, Null))]
    ELSE IF is_vector(value) THEN [res |-> Err(IncompatibleIndexType), value |-> value]
    ELSE [res |-> Err(NotIndexable), value |-> value]

\* impl IndexInto for String: self.as_str() and the str implementation
String_index_into(self, value) == str_index_into(self, value)
String_index_into_mut(self, value) == str_index_into_mut(self, value)
String_index_into_or_insert(self, value) == str_index_into_or_insert(self, value)

\* the implementation the index's type selects
index_into(index, value) ==
    CASE index.t = "usize" -> usize_index_into(index.i, value)
      [] index.t = "str" -> str_index_into(index.k, value)
      [] index.t = "String" -> String_index_into(index.k, value)

index_into_mut(index, value) ==
    CASE index.t = "usize" -> usize_index_into_mut(index.i, value)
      [] index.t = "str" -> str_index_into_mut(index.k, value)
      [] index.t = "String" -> String_index_into_mut(index.k, value)

index_into_or_insert(index, value) ==
    CASE index.t = "usize" -> usize_index_into_or_insert(index.i, value)
      [] index.t = "str" -> str_index_into_or_insert(index.k, value)
      [] index.t = "String" -> String_index_into_or_insert(index.k, value)

-----------------------------------------------------------------------------
(* Value::get, Value::get_mut, Value::get_or_insert.                       *)

\* mutant: `.unwrap()` in place of `.ok()`
get_unwrap(self, index) ==
    LET r == index_into(index, self) IN
    IF r.tag = "Err" THEN Panic("unwrap on an Err value")
    ELSE ok(r)

get(self, index) == ok(index_into(index, self))

get_mut(self, index) == ok(index_into_mut(index, self))

get_or_insert(self, index) ==
    LET r == index_into_or_insert(index, self) IN
    [res |-> ok(r.res), value |-> r.value]

-----------------------------------------------------------------------------
(* impl Index<T> for Value, impl IndexMut<T> for Value.                    *)

panic_not_indexable(name) == Panic("not indexable")
panic_incompatible_index_type(name) == Panic("incompatible index type")

\* a reference to the element, or to the static NULL_VALUE
Static == [t |-> "static", i |-> 0, k |-> ""]

\* mutant: NotIndexable handled like KeyNotFound
index_lenient(self, idx) ==
    LET name == type_name(self)
        r == index_into(idx, self) IN
    CASE r.tag = "Ok" -> Ok(r.step)
      [] r.tag = "Err" /\ r.err = IncompatibleIndexType ->
            panic_incompatible_index_type(name)
      [] r.tag = "Err" /\ r.err \in {NotIndexable, KeyNotFound} -> Ok(Static)

index(self, idx) ==
    LET name == type_name(self)
        r == index_into(idx, self) IN
    CASE r.tag = "Ok" -> Ok(r.step)
      [] r.tag = "Err" /\ r.err = NotIndexable -> panic_not_indexable(name)
      [] r.tag = "Err" /\ r.err = IncompatibleIndexType ->
            panic_incompatible_index_type(name)
      [] r.tag = "Err" /\ r.err = KeyNotFound -> Ok(Static)

\* mutant: index_into_mut called in place of index_into_or_insert
index_mut_noinsert(self, idx) ==
    LET name == type_name(self)
        r == index_into_mut(idx, self) IN
    [res |-> CASE r.tag = "Ok" -> Ok(r.step)
               [] r.tag = "Err" /\ r.err = NotIndexable ->
                     panic_not_indexable(name)
               [] r.tag = "Err" /\ r.err = IncompatibleIndexType ->
                     panic_incompatible_index_type(name)
               [] r.tag = "Err" /\ r.err = KeyNotFound ->
                     Panic("unreachable"),
     value |-> self]

index_mut(self, idx) ==
    LET name == type_name(self)
        r == index_into_or_insert(idx, self) IN
    [res |-> CASE r.res.tag = "Ok" -> Ok(r.res.step)
               [] r.res.tag = "Panic" -> r.res
               [] r.res.tag = "Err" /\ r.res.err = NotIndexable ->
                     panic_not_indexable(name)
               [] r.res.tag = "Err" /\ r.res.err = IncompatibleIndexType ->
                     panic_incompatible_index_type(name)
               [] r.res.tag = "Err" /\ r.res.err = KeyNotFound ->
                     Panic("unreachable"),
     value |-> r.value]

-----------------------------------------------------------------------------
(* Machine numbers of src/src/value/number.rs.  A native integer is the    *)
(* mathematical integer it holds and a native integer type the record of   *)
(* its signedness and width; an `as` cast is computed on the bit pattern,  *)
(* as the compiler computes it.  A float is a record of its type, class,   *)
(* sign and magnitude in units of 2^-FracBits, and is a value of its type  *)
(* when the magnitude has no more significant bits than the type's         *)
(* precision.  A NaN stands for every NaN payload.                         *)

RECURSIVE Pow2(_)
Pow2(k) == IF k = 0 THEN 1 ELSE 2 * Pow2(k - 1)

RECURSIVE BitLen(_)
BitLen(q) == IF q = 0 THEN 0 ELSE 1 + BitLen(q \div 2)

IntT(name, signed, bits) ==
    [name |-> name, float |-> FALSE, signed |-> signed, bits |-> bits]

\* the widths of i8, i16, i32 and of u8, u16, u32: the widths below the word
NarrowBits == 2..(WordBits - 1)
\* the widths of usize and isize on the targets the crate can be built
\* for: a call on usize or isize is a call on one of these builds
PtrWidths == {WordBits - 1, WordBits}

iN(bits) == IntT("iN", TRUE, bits)
i64 == IntT("i64", TRUE, WordBits)
isize(ptr) == IntT("isize", TRUE, ptr)
i128 == IntT("i128", TRUE, 2 * WordBits)
uN(bits) == IntT("uN", FALSE, bits)
u64 == IntT("u64", FALSE, WordBits)
usize(ptr) == IntT("usize", FALSE, ptr)
u128 == IntT("u128", FALSE, 2 * WordBits)

\* T::MIN, T::MAX
MIN(T) == IF T.signed THEN -Pow2(T.bits - 1) ELSE 0
MAX(T) == IF T.signed THEN Pow2(T.bits - 1) - 1 ELSE Pow2(T.bits) - 1

\* `z as T` between integer types: the low T.bits bits of the two's
\* complement pattern of z, read with the signedness of T
int_as(T, z) ==
    LET low == z % Pow2(T.bits) IN
    IF T.signed /\ low >= Pow2(T.bits - 1) THEN low - Pow2(T.bits) ELSE low

\* z.wrapping_neg() in T
wrapping_neg(T, z) == int_as(T, -z)

\* the values of T
Values(T) == MIN(T)..MAX(T)

\* the float types: `mant` is the precision in significant bits and every
\* finite value is below 2^top in magnitude (f64 has 53 and 1024, f32 24 and
\* 128, the width of u128)
F32 == [name |-> "f32", float |-> TRUE, mant |-> MantBits - 1,
        top |-> 2 * WordBits]
F64 == [name |-> "f64", float |-> TRUE, mant |-> MantBits,
        top |-> 2 * WordBits + 2]

Finite(ty, neg, q) == [ty |-> ty, c |-> "finite", neg |-> neg, q |-> q]
NAN(ty) == [ty |-> ty, c |-> "nan", neg |-> FALSE, q |-> 0]
INFINITY(ty) == [ty |-> ty, c |-> "inf", neg |-> FALSE, q |-> 0]
NEG_INFINITY(ty) == [ty |-> ty, c |-> "inf", neg |-> TRUE, q |-> 0]

f_is_nan(x) == x.c = "nan"
f_is_infinite(x) == x.c = "inf"
is_sign_positive(x) == ~x.neg
is_sign_negative(x) == x.neg
f_abs(x) == [x EXCEPT !.neg = FALSE]
f_neg(x) == [x EXCEPT !.neg = ~x.neg]

\* the magnitude q rounded to p significant bits, ties to even
RoundTiesEven(q, p) ==
    IF BitLen(q) <= p THEN q
    ELSE LET unit == Pow2(BitLen(q) - p)
             low == q % unit
             down == q - low IN
         IF 2 * low > unit \/ (2 * low = unit /\ (down \div unit) % 2 = 1)
         THEN down + unit
         ELSE down

\* the float of type ty nearest to (-1)^neg * q / 2^FracBits
Rounded(ty, neg, q) ==
    LET r == RoundTiesEven(q, ty.mant) IN
    IF r >= Pow2(ty.top + FracBits)
    THEN IF neg THEN NEG_INFINITY(ty) ELSE INFINITY(ty)
    ELSE Finite(ty, neg, r)

\* `z as f32`, `z as f64` of an integer z
int_as_float(ty, z) ==
    Rounded(ty, z < 0, (IF z < 0 THEN -z ELSE z) * Pow2(FracBits))

\* `x as f32`, `x as f64` of a float x
float_as_float(ty, x) ==
    IF x.c = "finite" THEN Rounded(ty, x.neg, x.q) ELSE [x EXCEPT !.ty = ty]

\* `x as T` of a float x for an integer type T: NaN is 0, the rest is
\* truncated towards zero and saturates at T::MIN and T::MAX
float_as_int(T, x) ==
    IF x.c = "nan" THEN 0
    ELSE IF x.c = "inf" THEN (IF x.neg THEN MIN(T) ELSE MAX(T))
    ELSE LET t == x.q \div Pow2(FracBits)
             z == IF x.neg THEN -t ELSE t IN
         IF z < MIN(T) THEN MIN(T) ELSE IF z > MAX(T) THEN MAX(T) ELSE z

\* x == y of two floats: NaN equals nothing, -0.0 equals 0.0
f_eq(x, y) ==
    /\ x.c # "nan" /\ y.c # "nan"
    /\ x.c = y.c
    /\ \/ x.c = "finite" /\ x.q = 0 /\ y.q = 0
       \/ x.neg = y.neg /\ x.q = y.q

\* x >= y of two floats
f_ge(x, y) ==
    LET top == Pow2(F64.top + FracBits + 1)
        val(f) == IF f.c = "inf" THEN (IF f.neg THEN -top ELSE top)
                  ELSE (IF f.neg THEN -f.q ELSE f.q) IN
    x.c # "nan" /\ y.c # "nan" /\ val(x) >= val(y)

\* x.to_bits() == y.to_bits()
same_bits(x, y) == x.c = y.c /\ x.neg = y.neg /\ x.q = y.q

\* the floats of type ty: the finite ones are a significand of ty.mant
\* bits times a power of two, below 2^ty.top
Floats(ty) ==
    {Finite(ty, neg, q) : neg \in BOOLEAN,
        q \in {m \in {s * Pow2(e) : s \in 0..(Pow2(ty.mant) - 1),
                                   e \in 0..(ty.top + FracBits)} :
                 m < Pow2(ty.top + FracBits)}}
    \cup {NAN(ty), INFINITY(ty), NEG_INFINITY(ty)}

\* the values of f32 and of f64
F32Values == Floats(F32)
F64Values == Floats(F64)

-----------------------------------------------------------------------------
(* Number (src/src/value/number.rs).  The methods that the source writes   *)
(* once per native type with the same body are one operator with the type  *)
(* as a parameter.                                                         *)

PosInt(n) == [v |-> "PosInt", n |-> n]
NegInt(n) == [v |-> "NegInt", n |-> n]
Float(x) == [v |-> "Float", x |-> x]
NaN == [v |-> "NaN"]
Inf(negative) == [v |-> "Inf", negative |-> negative]

\* Option<T> of a native number
SomeOf(x) == [some |-> TRUE, x |-> x]
NoneOf == [some |-> FALSE]
is_some(o) == o.some

\* mutant: the sign of the infinity ignored
from_inf_positive(T, negative) == IF T.float THEN INFINITY(T) ELSE MAX(T)

\* utils.rs
from_inf(T, negative) ==
    IF T.float
    THEN (IF negative THEN NEG_INFINITY(T) ELSE INFINITY(T))
    ELSE (IF negative THEN MIN(T) ELSE MAX(T))

\* mutant: the payload widened without the high bits (`repr as i128`)
neg_i65_to_i128_unmasked(repr) == int_as(i128, repr)

\* repr as i128 | I128_HIGH_64_BITS: the two patterns share no bit, so that
\* the OR is the sum of the patterns
neg_i65_to_i128(repr) ==
    LET I128_HIGH_64_BITS == Pow2(2 * WordBits) - Pow2(WordBits) IN
    int_as(i128, int_as(u128, int_as(i128, repr)) + I128_HIGH_64_BITS)

f64_to_u64_no_sig_lossless(n0) ==
    IF f_is_infinite(n0) \/ f_is_nan(n0) THEN NoneOf
    ELSE LET n == f_abs(n0) IN
         IF f_ge(n, int_as_float(F64, MAX(u64))) THEN NoneOf
         ELSE LET converted == float_as_int(u64, n)
                  back_converted == int_as_float(F64, converted) IN
              IF f_eq(back_converted, n) THEN SomeOf(converted) ELSE NoneOf

f64_to_u128_no_sig_lossless(n0) ==
    IF f_is_infinite(n0) \/ f_is_nan(n0) THEN NoneOf
    ELSE LET n == f_abs(n0) IN
         IF f_ge(n, int_as_float(F64, MAX(u128))) THEN NoneOf
         ELSE LET converted == float_as_int(u128, n)
                  back_converted == int_as_float(F64, converted) IN
              IF f_eq(back_converted, n) THEN SomeOf(converted) ELSE NoneOf

f64_to_f32_lossless(n) ==
    LET converted == float_as_float(F64, float_as_float(F32, n)) IN
    IF same_bits(converted, n) THEN SomeOf(float_as_float(F32, n)) ELSE NoneOf

u64_to_f64_lossless(n) ==
    LET converted == int_as_float(F64, n)
        back_converted == float_as_int(u64, converted) IN
    IF back_converted = n THEN SomeOf(converted) ELSE NoneOf

u64_to_f32_lossless(n) ==
    LET converted == int_as_float(F32, n)
        back_converted == float_as_int(u64, converted) IN
    IF back_converted = n THEN SomeOf(converted) ELSE NoneOf

\* 18446744073709551616.0
TWO_POW_64_F32 == Finite(F32, FALSE, Pow2(WordBits + FracBits))
TWO_POW_64_F64 == Finite(F64, FALSE, Pow2(WordBits + FracBits))

\* mutant: a negative value widened without its sign (`value as uN as u64`)
from_i_zero_extended(T, value) ==
    IF value >= 0 THEN PosInt(int_as(u64, value))
    ELSE NegInt(int_as(u64, int_as(IntT("uN", FALSE, T.bits), value)))

\* impls.rs: From<i8>, From<i16>, From<i32>, From<i64>, From<isize>
from_i(T, value) ==
    IF value >= 0 THEN PosInt(int_as(u64, value)) ELSE NegInt(int_as(u64, value))

\* impls.rs: From<u8>, From<u16>, From<u32>, From<u64>, From<usize>
from_u(T, value) == PosInt(int_as(u64, value))

\* Number::from(value) for a value of the native integer type T
from(T, value) == IF T.signed THEN from_i(T, value) ELSE from_u(T, value)

\* impls.rs: <Number as Debug>::fmt, the text written as the record of its
\* parts; {} writes an integer in decimal
fmt(self) ==
    CASE self.v = "PosInt" ->
           [head |-> "Integer", minus |-> FALSE, digits |-> self.n]
      [] self.v = "NegInt" /\ self.n = 0 ->
           [head |-> "Integer", minus |-> TRUE, digits |-> Pow2(WordBits)]
      [] self.v = "NegInt" /\ self.n # 0 ->
           [head |-> "Integer", minus |-> TRUE, digits |-> wrapping_neg(u64, self.n)]
      [] self.v = "Float" -> [head |-> "Float", x |-> self.x]
      [] self.v = "NaN" -> [head |-> "NaN"]
      [] self.v = "Inf" -> [head |-> IF self.negative THEN "-Inf" ELSE "+Inf"]

\* mutant: NaN unequal to itself, as for the floats
eq_ieee(self, other) ==
    CASE self.v = "PosInt" /\ other.v = "PosInt" -> self.n = other.n
      [] self.v = "NegInt" /\ other.v = "NegInt" -> self.n = other.n
      [] self.v = "Float" /\ other.v = "Float" -> f_eq(self.x, other.x)
      [] self.v = "Inf" /\ other.v = "Inf" -> self.negative = other.negative
      [] OTHER -> FALSE

\* impls.rs: <Number as PartialEq>::eq
eq(self, other) ==
    CASE self.v = "PosInt" /\ other.v = "PosInt" -> self.n = other.n
      [] self.v = "NegInt" /\ other.v = "NegInt" -> self.n = other.n
      [] self.v = "Float" /\ other.v = "Float" -> f_eq(self.x, other.x)
      [] self.v = "NaN" /\ other.v = "NaN" -> TRUE
      [] self.v = "Inf" /\ other.v = "Inf" -> self.negative = other.negative
      [] OTHER -> FALSE

\* x.to_bits() of an f64, as the integer the pattern is read as: the sign is
\* the top bit and below it the pattern grows with the magnitude, from 0 for
\* 0.0 through the finite values to the infinity and, above it, the NaN
to_bits(x) ==
    LET inf == Pow2(F64.top + FracBits)
        body == CASE x.c = "finite" -> x.q
                  [] x.c = "inf" -> inf
                  [] x.c = "nan" -> inf + 1 IN
    (IF x.neg THEN 2 * inf ELSE 0) + body

\* mutant: the zeros not folded (`n.to_bits().hash(state)` for every float)
hash_of_bits(self) ==
    CASE self.v \in {"PosInt", "NegInt"} -> <<self.n>>
      [] self.v = "Float" -> <<to_bits(self.x)>>
      [] self.v = "NaN" -> <<to_bits(NAN(F64))>>
      [] self.v = "Inf" ->
           <<to_bits(IF self.negative THEN NEG_INFINITY(F64) ELSE INFINITY(F64))>>

\* impls.rs: <Number as Hash>::hash, as the sequence of the u64 written to
\* the hasher
hash(self) ==
    CASE self.v \in {"PosInt", "NegInt"} -> <<self.n>>
      [] self.v = "Float" ->
           IF f_eq(self.x, Finite(F64, FALSE, 0))
           THEN <<to_bits(Finite(F64, FALSE, 0))>>
           ELSE <<to_bits(self.x)>>
      [] self.v = "NaN" -> <<to_bits(NAN(F64))>>
      [] self.v = "Inf" ->
           <<to_bits(IF self.negative THEN NEG_INFINITY(F64) ELSE INFINITY(F64))>>

\* mutant: the value stored without the NaN and infinity tests
from_f32_unchecked(value) == Float(float_as_float(F64, value))

\* impls.rs: From<f32>
from_f32(value) ==
    LET value_f64 == float_as_float(F64, value) IN
    IF f_is_nan(value_f64) THEN NaN
    ELSE IF f_is_infinite(value_f64) THEN Inf(is_sign_negative(value_f64))
    ELSE Float(value_f64)

\* impls.rs: From<f64>
from_f64(value) ==
    IF f_is_nan(value) THEN NaN
    ELSE IF f_is_infinite(value) THEN Inf(is_sign_negative(value))
    ELSE Float(value)

\* Number::from(value) for a value of the float type T
from_float(T, value) == IF T = F32 THEN from_f32(value) ELSE from_f64(value)

\* x != 0.0
f_ne(x, y) == ~f_eq(x, y)

is_positive(self) ==
    CASE self.v = "PosInt" -> self.n > 0
      [] self.v = "NegInt" -> FALSE
      [] self.v = "Float" ->
           is_sign_positive(self.x) /\ f_ne(self.x, Finite(F64, FALSE, 0))
      [] self.v = "NaN" -> FALSE
      [] self.v = "Inf" -> ~self.negative

\* mutant: the sign bit alone (`n.is_sign_negative()`)
is_negative_by_sign_bit(self) ==
    CASE self.v = "PosInt" -> FALSE
      [] self.v = "NegInt" -> TRUE
      [] self.v = "Float" -> is_sign_negative(self.x)
      [] self.v = "NaN" -> FALSE
      [] self.v = "Inf" -> self.negative

is_negative(self) ==
    CASE self.v = "PosInt" -> FALSE
      [] self.v = "NegInt" -> TRUE
      [] self.v = "Float" ->
           is_sign_negative(self.x) /\ f_ne(self.x, Finite(F64, FALSE, 0))
      [] self.v = "NaN" -> FALSE
      [] self.v = "Inf" -> self.negative

is_zero(self) ==
    CASE self.v = "PosInt" -> self.n = 0
      [] self.v = "NegInt" -> FALSE
      [] self.v = "Float" -> f_eq(self.x, Finite(F64, FALSE, 0))
      [] self.v = "NaN" -> FALSE
      [] self.v = "Inf" -> FALSE

is_integer(self) == self.v \in {"PosInt", "NegInt"}

\* mutant: the lower boundary excluded (`*n > T::MIN as u64`)
fits_in_i_strict(T, self) ==
    CASE self.v = "PosInt" -> self.n <= int_as(u64, MAX(T))
      [] self.v = "NegInt" -> self.n > int_as(u64, MIN(T))
      [] OTHER -> FALSE

\* fits_in_i8, fits_in_i16, fits_in_i32, fits_in_i64, fits_in_isize
fits_in_i(T, self) ==
    CASE self.v = "PosInt" -> self.n <= int_as(u64, MAX(T))
      [] self.v = "NegInt" -> self.n >= int_as(u64, MIN(T))
      [] OTHER -> FALSE

fits_in_i128(self) == self.v \in {"PosInt", "NegInt"}

\* fits_in_u8, fits_in_u16, fits_in_u32, fits_in_usize
fits_in_u(T, self) ==
    CASE self.v = "PosInt" -> self.n <= int_as(u64, MAX(T))
      [] OTHER -> FALSE

fits_in_u64(self) == self.v = "PosInt"

fits_in_u128(self) == self.v = "PosInt"

fits_in_f32(self) ==
    CASE self.v = "Float" -> is_some(f64_to_f32_lossless(self.x))
      [] self.v \in {"NaN", "Inf"} -> TRUE
      [] OTHER -> FALSE

fits_in_f64(self) == self.v \in {"Float", "NaN", "Inf"}

\* get_i8, get_i16, get_i32, get_i64, get_isize
get_i(T, self) ==
    CASE self.v = "PosInt" /\ self.n <= int_as(u64, MAX(T)) ->
           SomeOf(int_as(T, self.n))
      [] self.v = "NegInt" /\ self.n >= int_as(u64, MIN(T)) ->
           SomeOf(int_as(T, self.n))
      [] OTHER -> NoneOf

get_i128(self) ==
    CASE self.v = "PosInt" -> SomeOf(int_as(i128, self.n))
      [] self.v = "NegInt" -> SomeOf(neg_i65_to_i128(self.n))
      [] OTHER -> NoneOf

\* get_u8, get_u16, get_u32, get_usize
get_u(T, self) ==
    CASE self.v = "PosInt" /\ self.n <= int_as(u64, MAX(T)) ->
           SomeOf(int_as(T, self.n))
      [] OTHER -> NoneOf

get_u64(self) ==
    CASE self.v = "PosInt" -> SomeOf(self.n)
      [] OTHER -> NoneOf

get_u128(self) ==
    CASE self.v = "PosInt" -> SomeOf(int_as(u128, self.n))
      [] OTHER -> NoneOf

get_f32(self) ==
    CASE self.v = "Float" ->
           IF fits_in_f32(self) THEN SomeOf(float_as_float(F32, self.x))
           ELSE NoneOf
      [] self.v = "NaN" -> SomeOf(NAN(F32))
      [] self.v = "Inf" -> SomeOf(from_inf(F32, self.negative))
      [] OTHER -> NoneOf

\* mutant: an integer read through the lossy cast (`Some(*n as f64)`)
get_f64_of_integer(self) ==
    CASE self.v = "Float" -> SomeOf(self.x)
      [] self.v = "NaN" -> SomeOf(NAN(F64))
      [] self.v = "Inf" -> SomeOf(from_inf(F64, self.negative))
      [] self.v = "PosInt" -> SomeOf(int_as_float(F64, self.n))
      [] OTHER -> NoneOf

get_f64(self) ==
    CASE self.v = "Float" -> SomeOf(self.x)
      [] self.v = "NaN" -> SomeOf(NAN(F64))
      [] self.v = "Inf" -> SomeOf(from_inf(F64, self.negative))
      [] OTHER -> NoneOf

\* as_i8_exact, as_i16_exact, as_i32_exact: the magnitude of a negative
\* float is compared with -(T::MIN as i64) as u64
as_i_exact(T, self) ==
    CASE self.v = "PosInt" /\ self.n <= int_as(u64, MAX(T)) ->
           SomeOf(int_as(T, self.n))
      [] self.v = "NegInt" /\ self.n >= int_as(u64, MIN(T)) ->
           SomeOf(int_as(T, self.n))
      [] self.v = "Float" ->
           LET int == f64_to_u64_no_sig_lossless(self.x) IN
           IF ~is_some(int) THEN NoneOf
           ELSE IF is_sign_positive(self.x)
           THEN (IF int.x <= int_as(u64, MAX(T))
                 THEN SomeOf(int_as(T, int.x)) ELSE NoneOf)
           ELSE IF int.x <= int_as(u64, -int_as(i64, MIN(T)))
           THEN SomeOf(wrapping_neg(T, int_as(T, int.x)))
           ELSE NoneOf
      [] OTHER -> NoneOf

\* as_i64_exact, as_isize_exact: the magnitude of a negative float is
\* compared with T::MIN as u64
as_i64_exact(T, self) ==
    CASE self.v = "PosInt" /\ self.n <= int_as(u64, MAX(T)) ->
           SomeOf(int_as(T, self.n))
      [] self.v = "NegInt" /\ self.n >= int_as(u64, MIN(T)) ->
           SomeOf(int_as(T, self.n))
      [] self.v = "Float" ->
           LET int == f64_to_u64_no_sig_lossless(self.x) IN
           IF ~is_some(int) THEN NoneOf
           ELSE IF is_sign_positive(self.x)
           THEN (IF int.x <= int_as(u64, MAX(T))
                 THEN SomeOf(int_as(T, int.x)) ELSE NoneOf)
           ELSE IF int.x <= int_as(u64, MIN(T))
           THEN SomeOf(wrapping_neg(T, int_as(T, int.x)))
           ELSE NoneOf
      [] OTHER -> NoneOf

as_i128_exact(self) ==
    CASE self.v = "PosInt" -> SomeOf(int_as(i128, self.n))
      [] self.v = "NegInt" -> SomeOf(neg_i65_to_i128(self.n))
      [] self.v = "Float" ->
           LET int == f64_to_u128_no_sig_lossless(self.x) IN
           IF ~is_some(int) THEN NoneOf
           ELSE IF is_sign_positive(self.x) /\ int.x <= int_as(u128, MAX(i128))
           THEN SomeOf(int_as(i128, int.x))
           ELSE IF is_sign_negative(self.x) /\ int.x <= int_as(u128, MIN(i128))
           THEN SomeOf(wrapping_neg(i128, int_as(i128, int.x)))
           ELSE NoneOf
      [] OTHER -> NoneOf

\* mutant: NaN and the infinities through the lossy cast (`Some(self.as_u8())`)
as_u_exact_saturating(T, self) ==
    CASE self.v = "PosInt" /\ self.n <= int_as(u64, MAX(T)) ->
           SomeOf(int_as(T, self.n))
      [] self.v = "Float" ->
           LET int == f64_to_u64_no_sig_lossless(self.x) IN
           IF ~is_some(int) THEN NoneOf
           ELSE IF is_sign_positive(self.x) /\ int.x <= int_as(u64, MAX(T))
           THEN SomeOf(int_as(T, int.x))
           ELSE IF int.x = 0 THEN SomeOf(0)
           ELSE NoneOf
      [] self.v = "NaN" -> SomeOf(0)
      [] self.v = "Inf" -> SomeOf(from_inf(T, self.negative))
      [] OTHER -> NoneOf

\* as_u8_exact, as_u16_exact, as_u32_exact, as_usize_exact
as_u_exact(T, self) ==
    CASE self.v = "PosInt" /\ self.n <= int_as(u64, MAX(T)) ->
           SomeOf(int_as(T, self.n))
      [] self.v = "Float" ->
           LET int == f64_to_u64_no_sig_lossless(self.x) IN
           IF ~is_some(int) THEN NoneOf
           ELSE IF is_sign_positive(self.x) /\ int.x <= int_as(u64, MAX(T))
           THEN SomeOf(int_as(T, int.x))
           ELSE IF int.x = 0 THEN SomeOf(0)
           ELSE NoneOf
      [] OTHER -> NoneOf

as_u64_exact(self) ==
    CASE self.v = "PosInt" -> SomeOf(self.n)
      [] self.v = "Float" ->
           LET int == f64_to_u64_no_sig_lossless(self.x) IN
           IF ~is_some(int) THEN NoneOf
           ELSE IF is_sign_positive(self.x) THEN SomeOf(int.x)
           ELSE IF int.x = 0 THEN SomeOf(0)
           ELSE NoneOf
      [] OTHER -> NoneOf

as_u128_exact(self) ==
    CASE self.v = "PosInt" -> SomeOf(int_as(u128, self.n))
      [] self.v = "Float" ->
           LET int == f64_to_u128_no_sig_lossless(self.x) IN
           IF ~is_some(int) THEN NoneOf
           ELSE IF is_sign_positive(self.x) THEN SomeOf(int.x)
           ELSE IF int.x = 0 THEN SomeOf(0)
           ELSE NoneOf
      [] OTHER -> NoneOf

as_f32_exact(self) ==
    CASE self.v = "PosInt" -> u64_to_f32_lossless(self.n)
      [] self.v = "NegInt" /\ self.n = 0 -> SomeOf(f_neg(TWO_POW_64_F32))
      [] self.v = "NegInt" /\ self.n # 0 ->
           LET v == u64_to_f32_lossless(MAX(u64) - self.n + 1) IN
           IF is_some(v) THEN SomeOf(f_neg(v.x)) ELSE NoneOf
      [] self.v = "Float" -> f64_to_f32_lossless(self.x)
      [] self.v = "NaN" -> SomeOf(NAN(F32))
      [] self.v = "Inf" -> SomeOf(from_inf(F32, self.negative))

as_f64_exact(self) ==
    CASE self.v = "PosInt" -> u64_to_f64_lossless(self.n)
      [] self.v = "NegInt" /\ self.n = 0 -> SomeOf(f_neg(TWO_POW_64_F64))
      [] self.v = "NegInt" /\ self.n # 0 ->
           LET v == u64_to_f64_lossless(MAX(u64) - self.n + 1) IN
           IF is_some(v) THEN SomeOf(f_neg(v.x)) ELSE NoneOf
      [] self.v = "Float" -> SomeOf(self.x)
      [] self.v = "NaN" -> SomeOf(NAN(F64))
      [] self.v = "Inf" -> SomeOf(from_inf(F64, self.negative))

\* as_i8, as_i16, as_i32, as_i64, as_isize, as_u8, as_u16, as_u32, as_u64,
\* as_usize
as_int(T, self) ==
    CASE self.v \in {"PosInt", "NegInt"} -> int_as(T, self.n)
      [] self.v = "Float" -> float_as_int(T, self.x)
      [] self.v = "NaN" -> 0
      [] self.v = "Inf" -> from_inf(T, self.negative)

as_i128(self) ==
    CASE self.v = "PosInt" -> int_as(i128, self.n)
      [] self.v = "NegInt" -> neg_i65_to_i128(self.n)
      [] self.v = "Float" -> float_as_int(i128, self.x)
      [] self.v = "NaN" -> 0
      [] self.v = "Inf" -> from_inf(i128, self.negative)

\* mutant: NegInt widened without its sign (`*n as u128`)
as_u128_zero_extended(self) ==
    CASE self.v \in {"PosInt", "NegInt"} -> int_as(u128, self.n)
      [] self.v = "Float" -> float_as_int(u128, self.x)
      [] self.v = "NaN" -> 0
      [] self.v = "Inf" -> from_inf(u128, self.negative)

as_u128(self) ==
    CASE self.v = "PosInt" -> int_as(u128, self.n)
      [] self.v = "NegInt" -> int_as(u128, neg_i65_to_i128(self.n))
      [] self.v = "Float" -> float_as_int(u128, self.x)
      [] self.v = "NaN" -> 0
      [] self.v = "Inf" -> from_inf(u128, self.negative)

as_f32(self) ==
    CASE self.v = "PosInt" -> int_as_float(F32, self.n)
      [] self.v = "NegInt" -> int_as_float(F32, neg_i65_to_i128(self.n))
      [] self.v = "Float" -> float_as_float(F32, self.x)
      [] self.v = "NaN" -> NAN(F32)
      [] self.v = "Inf" -> from_inf(F32, self.negative)

as_f64(self) ==
    CASE self.v = "PosInt" -> int_as_float(F64, self.n)
      [] self.v = "NegInt" -> int_as_float(F64, neg_i65_to_i128(self.n))
      [] self.v = "Float" -> self.x
      [] self.v = "NaN" -> NAN(F64)
      [] self.v = "Inf" -> from_inf(F64, self.negative)

\* the native types: T::name is the method written for T
SignedTypes ==
    {iN(b) : b \in NarrowBits} \cup {isize(p) : p \in PtrWidths} \cup {i64, i128}
UnsignedTypes ==
    {uN(b) : b \in NarrowBits} \cup {usize(p) : p \in PtrWidths} \cup {u64, u128}
IntTypes == SignedTypes \cup UnsignedTypes
FloatTypes == {F32, F64}
Types == IntTypes \cup FloatTypes

\* n.fits_in_<T>()
fits_in(T, self) ==
    CASE T.name \in {"iN", "i64", "isize"} -> fits_in_i(T, self)
      [] T.name = "i128" -> fits_in_i128(self)
      [] T.name \in {"uN", "usize"} -> fits_in_u(T, self)
      [] T.name = "u64" -> fits_in_u64(self)
      [] T.name = "u128" -> fits_in_u128(self)
      [] T.name = "f32" -> fits_in_f32(self)
      [] T.name = "f64" -> fits_in_f64(self)

\* n.get_<T>()
get_T(T, self) ==
    CASE T.name \in {"iN", "i64", "isize"} -> get_i(T, self)
      [] T.name = "i128" -> get_i128(self)
      [] T.name \in {"uN", "usize"} -> get_u(T, self)
      [] T.name = "u64" -> get_u64(self)
      [] T.name = "u128" -> get_u128(self)
      [] T.name = "f32" -> get_f32(self)
      [] T.name = "f64" -> get_f64(self)

\* n.as_<T>_exact()
as_T_exact(T, self) ==
    CASE T.name = "iN" -> as_i_exact(T, self)
      [] T.name \in {"i64", "isize"} -> as_i64_exact(T, self)
      [] T.name = "i128" -> as_i128_exact(self)
      [] T.name \in {"uN", "usize"} -> as_u_exact(T, self)
      [] T.name = "u64" -> as_u64_exact(self)
      [] T.name = "u128" -> as_u128_exact(self)
      [] T.name = "f32" -> as_f32_exact(self)
      [] T.name = "f64" -> as_f64_exact(self)

\* n.as_<T>()
as_T(T, self) ==
    CASE T.name \in {"iN", "i64", "isize", "uN", "u64", "usize"} -> as_int(T, self)
      [] T.name = "i128" -> as_i128(self)
      [] T.name = "u128" -> as_u128(self)
      [] T.name = "f32" -> as_f32(self)
      [] T.name = "f64" -> as_f64(self)

-----------------------------------------------------------------------------
(* impl Value: the accessors as_<kind>.                                    *)

\* mutant: as_null that does not look at the variant
as_null_any(self) == SomeOf("()")

as_null(self) == IF is_null(self) THEN SomeOf("()") ELSE NoneOf

as_boolean(self) ==
    IF self.kind = "boolean" THEN SomeOf(self.b) ELSE NoneOf

as_number(self) ==
    IF self.kind = "number" THEN SomeOf(self.n) ELSE NoneOf

as_string(self) ==
    IF self.kind = "string" THEN SomeOf(self.s) ELSE NoneOf

as_str(self) ==
    IF self.kind = "string" THEN SomeOf(self.s) ELSE NoneOf

as_vector(self) ==
    IF self.kind = "vector" THEN SomeOf(self.items) ELSE NoneOf

as_map(self) ==
    IF self.kind = "map" THEN SomeOf(self.m) ELSE NoneOf

-----------------------------------------------------------------------------

(* The caller: a Value built by a constructor, then calls of the indexing  *)
(* API on the root or on the element the last &mut designates, and writes  *)
(* through that &mut.                                                      *)

Keys == {"a", "b"}

Indexes ==
    {Usize(i) : i \in 0..MaxIdx} \cup {Str(k) : k \in Keys}
        \cup {StringIdx(k) : k \in Keys}

NoIdx == [t |-> "none", i |-> 0, k |-> ""]

\* the Values the caller starts from
InitValues ==
    {Null, Boolean(TRUE), Number(42), String("hello"),
     vector_empty, vector_from(<<1, 2>>),
     map_empty, Map([k \in {"a"} |-> Number(42)])}

\* the Values the caller writes through a &mut
WriteValues == {Number(5), vector_empty, map_empty}

\* the Values a call can be made on
Targets == {<<>>, cursor}

\* the &mut the caller holds after a call that returns one
AfterMut(target, res) ==
    IF res.tag \in {"Ok", "Some"} THEN Append(target, res.step)
    ELSE IF res.tag = "Panic" THEN <<>>
    ELSE target

\* what the caller still holds after a call that returns a shared reference
AfterRef(target, res) == IF res.tag = "Panic" THEN <<>> ELSE target

\* no IndexInto method was called
NoCall == [tag |-> "-", err |-> "", step |-> NoStep]

\* the state after a call: `inner` is what the IndexInto method the call
\* makes returned to it, `res` what the call returns to the caller
Return(op, target, idx, x, inner, res, newroot, newcursor) ==
    /\ calls < MaxCalls
    /\ calls' = calls + 1
    /\ root' = newroot
    /\ cursor' = newcursor
    /\ pre' = root
    /\ out' = [op |-> op, target |-> target, idx |-> idx, x |-> x,
               inner |-> inner, res |-> res]
    /\ UNCHANGED <<num, nout>>

Init ==
    /\ root \in InitValues
    /\ cursor = <<>>
    /\ pre = root
    /\ calls = 0
    /\ out = [op |-> "new", target |-> <<>>, idx |-> NoIdx, x |-> Null,
              inner |-> NoCall, res |-> Ok(NoStep)]
    /\ num = PosInt(0)
    /\ nout = [m |-> "-"]

\* value.get(idx)
Get ==
    \E target \in Targets, idx \in Indexes :
        LET self == At(root, target)
            r == get(self, idx) IN
        Return("get", target, idx, Null, index_into(idx, self), r,
               root, AfterRef(target, r))

\* value.get_mut(idx)
GetMut ==
    \E target \in Targets, idx \in Indexes :
        LET self == At(root, target)
            r == get_mut(self, idx) IN
        Return("get_mut", target, idx, Null, index_into_mut(idx, self), r,
               root, AfterMut(target, r))

\* value.get_or_insert(idx)
GetOrInsert ==
    \E target \in Targets, idx \in Indexes :
        LET self == At(root, target)
            r == get_or_insert(self, idx) IN
        Return("get_or_insert", target, idx, Null,
               index_into_or_insert(idx, self).res, r.res,
               Put(root, target, r.value), AfterMut(target, r.res))

\* &value[idx]
Index ==
    \E target \in Targets, idx \in Indexes :
        LET self == At(root, target)
            r == index(self, idx) IN
        Return("index", target, idx, Null, index_into(idx, self), r,
               root, AfterRef(target, r))

\* &mut value[idx], the left-hand side of value[idx] = x
IndexMut ==
    \E target \in Targets, idx \in Indexes :
        LET self == At(root, target)
            r == index_mut(self, idx) IN
        Return("index_mut", target, idx, Null,
               index_into_or_insert(idx, self).res, r.res,
               Put(root, target, r.value), AfterMut(target, r.res))

\* *handle = x, through the &mut the caller holds
Write ==
    /\ cursor # <<>>
    /\ \E x \in WriteValues :
        Return("write", cursor, NoIdx, x, NoCall, Ok(NoStep),
               Put(root, cursor, x), cursor)

Next ==
    \/ Get
    \/ GetMut
    \/ GetOrInsert
    \/ Index
    \/ IndexMut
    \/ Write

Spec == Init /\ [][Next]_vars

-----------------------------------------------------------------------------
(* The caller of Number: a Number built from its public variants or from a *)
(* native integer, then calls of its methods.                              *)

Integers64 == {PosInt(n) : n \in Values(u64)} \cup {NegInt(n) : n \in Values(u64)}
\* Float holds a finite f64: number.rs does not allow the variant to be
\* constructed with NaN or an infinity
Numbers ==
    Integers64 \cup {Float(x) : x \in {y \in F64Values : y.c = "finite"}}
               \cup {NaN, Inf(FALSE), Inf(TRUE)}

\* the native integer types Number implements From for
FromTypes == IntTypes \ {i128, u128}

NoMethod == [m |-> "-"]

\* `==` of two Option<T>
option_eq(T, a, b) ==
    /\ a.some = b.some
    /\ a.some => (IF T.float THEN f_eq(a.x, b.x) ELSE a.x = b.x)

\* mutant: the comparison through the lossy cast (`self.as_<T>() == *other`)
eq_primitive_lossy(T, self, other) == as_T(T, self) = other

\* impls.rs: impl_partial_eq_number!, PartialEq<$t> for Number
eq_primitive(T, self, other) == option_eq(T, as_T_exact(T, self), SomeOf(other))

\* impls.rs: impl_partial_eq_number!, PartialEq<Number> for $t
primitive_eq(T, self, other) == option_eq(T, as_T_exact(T, other), SomeOf(self))

\* the state after the call of method m for type T with argument arg; the
\* methods take &self and keep nothing between calls: a run is one call on
\* a Number the caller wrote, or the construction of one with from (the
\* guard nout = NoMethod of every action)
Returned(m, T, arg, res) ==
    /\ nout' = [m |-> m, T |-> T, arg |-> arg, res |-> res]
    /\ UNCHANGED <<root, cursor, pre, out, calls>>

InitNumber ==
    /\ root = Null
    /\ cursor = <<>>
    /\ pre = root
    /\ calls = 0
    /\ out = [op |-> "new", target |-> <<>>, idx |-> NoIdx, x |-> Null,
              inner |-> NoCall, res |-> Ok(NoStep)]
    /\ num \in Numbers
    /\ nout = NoMethod

\* num = Number::from(value)
From ==
    /\ nout = NoMethod
    /\ \E T \in FromTypes : \E value \in Values(T) :
            /\ num' = from(T, value)
            /\ Returned("from", T, value, from(T, value))

\* num.fits_in_<T>()
FitsIn ==
    /\ nout = NoMethod
    /\ \E T \in Types :
            /\ Returned("fits_in", T, num, fits_in(T, num))
            /\ UNCHANGED num

\* num.get_<T>()
GetT ==
    /\ nout = NoMethod
    /\ \E T \in Types :
            /\ Returned("get", T, num, get_T(T, num))
            /\ UNCHANGED num

\* num.as_<T>_exact()
AsTExact ==
    /\ nout = NoMethod
    /\ \E T \in Types :
            /\ Returned("as_exact", T, num, as_T_exact(T, num))
            /\ UNCHANGED num

\* num.as_<T>()
AsT ==
    /\ nout = NoMethod
    /\ \E T \in Types :
            /\ Returned("as", T, num, as_T(T, num))
            /\ UNCHANGED num

\* num == other
Eq ==
    /\ nout = NoMethod
    /\ \E other \in Numbers :
            /\ Returned("eq", F64, other, eq(num, other))
            /\ UNCHANGED num

\* format!("{:?}", num)
Fmt ==
    /\ nout = NoMethod
    /\ Returned("fmt", F64, num, fmt(num))
    /\ UNCHANGED num

\* num = Number::from(value) for an f32 or f64
FromFloat ==
    /\ nout = NoMethod
    /\ \E T \in FloatTypes : \E value \in (IF T = F32 THEN F32Values ELSE F64Values) :
            /\ num' = from_float(T, value)
            /\ Returned("from_float", T, value, from_float(T, value))

\* num.hash(&mut state)
Hash ==
    /\ nout = NoMethod
    /\ Returned("hash", F64, num, hash(num))
    /\ UNCHANGED num

\* num.is_positive()
IsPositive ==
    /\ nout = NoMethod
    /\ Returned("is_positive", F64, num, is_positive(num))
    /\ UNCHANGED num

\* num.is_negative()
IsNegative ==
    /\ nout = NoMethod
    /\ Returned("is_negative", F64, num, is_negative(num))
    /\ UNCHANGED num

\* num.is_zero()
IsZero ==
    /\ nout = NoMethod
    /\ Returned("is_zero", F64, num, is_zero(num))
    /\ UNCHANGED num

\* num == p for a native integer p
EqPrimitive ==
    /\ nout = NoMethod
    /\ \E T \in FromTypes : \E p \in Values(T) :
            /\ Returned("eq_primitive", T, p, eq_primitive(T, num, p))
            /\ UNCHANGED num

\* p == num for a native integer p
PrimitiveEq ==
    /\ nout = NoMethod
    /\ \E T \in FromTypes : \E p \in Values(T) :
            /\ Returned("primitive_eq", T, p, primitive_eq(T, p, num))
            /\ UNCHANGED num

NextNumber ==
    \/ From
    \/ FitsIn
    \/ GetT
    \/ AsTExact
    \/ AsT
    \/ Eq
    \/ Fmt
    \/ FromFloat
    \/ Hash
    \/ IsPositive
    \/ IsNegative
    \/ IsZero
    \/ EqPrimitive
    \/ PrimitiveEq

SpecNumber == InitNumber /\ [][NextNumber]_vars

-----------------------------------------------------------------------------
(* Vocabulary of the properties.                                           *)

\* the Value the last call was made on, before and after the call
Self == At(pre, out.target)
Now == At(root, out.target)

Scalar(v) == v.kind \in {"null", "boolean", "number", "string"}
IsPosIdx(idx) == idx.t = "usize"
IsKeyIdx(idx) == idx.t \in {"str", "String"}
StepOf(idx) == IF IsPosIdx(idx) THEN Pos(idx.i) ELSE Key(idx.k)

\* the index kind matches the container and the entry exists
Present(v, idx) == ~Scalar(v) /\ HasChild(v, StepOf(idx))
\* the index kind does not match the container
Mismatch(v, idx) ==
    \/ is_map(v) /\ IsPosIdx(idx)
    \/ is_vector(v) /\ IsKeyIdx(idx)
\* the index kind matches the container and the entry does not exist
Absent(v, idx) == ~Scalar(v) /\ ~Mismatch(v, idx) /\ ~Present(v, idx)

\* the last step of a path
Last(path) == path[Len(path)]

\* the Value a returned reference designates
Deref(v, step) == IF step = Static THEN Null ELSE Child(v, step)

\* nothing outside the Value the call was made on changed
FrameOutsideTarget == root = Put(pre, out.target, Now)

-----------------------------------------------------------------------------
(* C1: get_or_insert with an integer index i on a Vector of length n: if   *)
(* i >= n the vector afterwards has length exactly i+1, every position < n *)
(* is unchanged, every position from n to i holds Null and the handle      *)
(* designates position i; if i < n the vector is unchanged and the handle  *)
(* designates the existing element.  A write through a handle to a vector  *)
(* position changes that position only.                                    *)
C1_GetOrInsertVector ==
    /\ (out.op = "get_or_insert" /\ IsPosIdx(out.idx) /\ is_vector(Self)) =>
          LET i == out.idx.i
              n == Len(Self.items) IN
          /\ out.res = Some(Pos(i))
          /\ cursor = Append(out.target, Pos(i))
          /\ is_vector(Now)
          /\ FrameOutsideTarget
          /\ IF i >= n
             THEN /\ Len(Now.items) = i + 1
                  /\ \A j \in 1..n : Now.items[j] = Self.items[j]
                  /\ \A j \in (n + 1)..(i + 1) : Now.items[j] = Null
             ELSE Now = Self
    /\ (out.op = "write" /\ Last(out.target).t = "pos") =>
          LET parent == SubSeq(out.target, 1, Len(out.target) - 1)
              i == Last(out.target).i
              before == At(pre, parent).items
              after == At(root, parent).items IN
          /\ Len(after) = Len(before)
          /\ after[i + 1] = out.x
          /\ \A j \in 1..Len(before) : j # i + 1 => after[j] = before[j]
          /\ root = Put(pre, parent, At(root, parent))

\* [1, 2], get_or_insert(4), then 5 written through the handle
C1_Witness ==
    /\ out.op = "write"
    /\ out.x = Number(5)
    /\ pre = Vector(<<Number(1), Number(2), Null, Null, Null>>)
    /\ root = Vector(<<Number(1), Number(2), Null, Null, Number(5)>>)

(* C2: get_or_insert with a string key k on a Map that does not contain k  *)
(* inserts exactly the binding k -> Null and returns a handle to it: the   *)
(* key set is the old key set plus k and every other key keeps its value.  *)
C2_GetOrInsertMapAbsent ==
    (/\ out.op = "get_or_insert" /\ IsKeyIdx(out.idx) /\ is_map(Self)
     /\ out.idx.k \notin DOMAIN Self.m) =>
        LET k == out.idx.k IN
        /\ out.res = Some(Key(k))
        /\ cursor = Append(out.target, Key(k))
        /\ is_map(Now)
        /\ DOMAIN Now.m = DOMAIN Self.m \cup {k}
        /\ Cardinality(DOMAIN Now.m) = Cardinality(DOMAIN Self.m) + 1
        /\ Now.m[k] = Null
        /\ \A j \in DOMAIN Self.m : Now.m[j] = Self.m[j]
        /\ FrameOutsideTarget

C2_Witness ==
    /\ out.op = "get_or_insert"
    /\ out.idx = Str("b")
    /\ pre = Map([k \in {"a"} |-> Number(42)])
    /\ root = Map([k \in {"a", "b"} |-> IF k = "a" THEN Number(42) ELSE Null])

(* C3: read indexing (index_into, index_into_mut) classifies every Value   *)
(* and index into exactly one of: NotIndexable (scalar), IncompatibleIndex *)
(* Type (integer into a Map, string into a Vector), KeyNotFound (position  *)
(* out of bounds, key absent), or the element at that position / key.      *)
C3_ReadClassification ==
    (out.op \in {"get", "get_mut", "index"}) =>
        /\ Scalar(Self) => out.inner = Err(NotIndexable)
        /\ Mismatch(Self, out.idx) => out.inner = Err(IncompatibleIndexType)
        /\ Absent(Self, out.idx) => out.inner = Err(KeyNotFound)
        /\ Present(Self, out.idx) => out.inner = Ok(StepOf(out.idx))
        /\ Cardinality({c \in {"s", "m", "a", "p"} :
                \/ c = "s" /\ Scalar(Self)
                \/ c = "m" /\ Mismatch(Self, out.idx)
                \/ c = "a" /\ Absent(Self, out.idx)
                \/ c = "p" /\ Present(Self, out.idx)}) = 1
        /\ out.inner.tag \in {"Ok", "Err"}
        /\ out.inner.tag = "Err" => out.inner.err \in ValueIndexError

\* an integer index into a Map nested in the tree
C3_Witness ==
    /\ out.op = "get_mut"
    /\ out.target # <<>>
    /\ is_map(Self)
    /\ IsPosIdx(out.idx)
    /\ out.inner = Err(IncompatibleIndexType)

(* C4: indexing is atomic with respect to failure: whenever the IndexInto  *)
(* method a call makes fails with NotIndexable, IncompatibleIndexType or   *)
(* KeyNotFound, the whole tree is exactly as it was before the call.       *)
C4_FailureLeavesValueUnchanged ==
    (/\ out.op \in {"get", "get_mut", "get_or_insert", "index", "index_mut"}
     /\ out.inner.tag = "Err") =>
        /\ out.inner.err \in ValueIndexError
        /\ root = pre

\* get_or_insert with a string key on a non-empty Vector
C4_Witness ==
    /\ out.op = "get_or_insert"
    /\ IsKeyIdx(out.idx)
    /\ is_vector(Self)
    /\ Len(Self.items) > 0
    /\ out.res = None

(* C5: get_or_insert and write indexing never produce KeyNotFound: the     *)
(* index_into_or_insert they call returns Ok, NotIndexable or Incompatible *)
(* IndexType, and Ok for every integer index on a Vector and every string  *)
(* key on a Map; index_mut never reaches its unreachable!() branch.        *)
C5_NoKeyNotFoundOnInsert ==
    (out.op \in {"get_or_insert", "index_mut"}) =>
        /\ out.inner.tag \in {"Ok", "Err"}
        /\ out.inner.tag = "Err" =>
              out.inner.err \in {NotIndexable, IncompatibleIndexType}
        /\ (is_vector(Self) /\ IsPosIdx(out.idx)) => out.inner.tag = "Ok"
        /\ (is_map(Self) /\ IsKeyIdx(out.idx)) => out.inner.tag = "Ok"
        /\ out.res # Panic("unreachable")

\* write indexing with a key the Map does not hold
C5_Witness ==
    /\ out.op = "index_mut"
    /\ is_map(Self)
    /\ IsKeyIdx(out.idx)
    /\ out.idx.k \notin DOMAIN Self.m
    /\ out.res = Ok(Key(out.idx.k))

(* C6: operator read indexing v[i]: when the index kind matches the       *)
(* container but the entry is absent it yields Null; when the entry exists *)
(* it yields that entry; on a scalar it panics with the not-indexable      *)
(* error; on a mismatched index kind it panics with the incompatible-      *)
(* index-type error.                                                       *)
C6_OperatorRead ==
    (out.op = "index") =>
        /\ Absent(Self, out.idx) =>
              out.res.tag = "Ok" /\ Deref(Self, out.res.step) = Null
        /\ Present(Self, out.idx) =>
              /\ out.res = Ok(StepOf(out.idx))
              /\ Deref(Self, out.res.step) = Child(Self, StepOf(out.idx))
        /\ Scalar(Self) => out.res = Panic("not indexable")
        /\ Mismatch(Self, out.idx) => out.res = Panic("incompatible index type")

\* Value::number(42)[0]
C6_Witness ==
    /\ out.op = "index"
    /\ pre = Number(42)
    /\ out.idx = Usize(0)
    /\ out.res = Panic("not indexable")

\* v with x stored through the reference the step designates
StoreThrough(v, step, x) == Put(v, <<step>>, x)

(* C7: operator write indexing v[i] = x behaves exactly as get_or_insert(i) *)
(* followed by a write of x through the returned handle: the container is  *)
(* the same on both paths, and v[i] panics exactly where get_or_insert     *)
(* fails (NotIndexable, IncompatibleIndexType).                            *)
C7_OperatorWriteIsGetOrInsert ==
    /\ (out.op = "index_mut") =>
          LET g == get_or_insert(Self, out.idx) IN
          /\ Now = g.value
          /\ FrameOutsideTarget
          /\ g.res.tag = "Some" =>
                /\ out.res = Ok(g.res.step)
                /\ cursor = Append(out.target, g.res.step)
          /\ g.res.tag = "None" =>
                /\ out.res.tag = "Panic"
                /\ out.inner.err = NotIndexable =>
                      out.res = Panic("not indexable")
                /\ out.inner.err = IncompatibleIndexType =>
                      out.res = Panic("incompatible index type")
          /\ out.res.tag = "Panic" => g.res.tag = "None"
    /\ \A target \in Targets, idx \in Indexes, x \in WriteValues :
          LET self == At(root, target)
              a == index_mut(self, idx)
              g == get_or_insert(self, idx) IN
          /\ (a.res.tag = "Ok") = (g.res.tag = "Some")
          /\ (a.res.tag = "Panic") = (g.res.tag = "None")
          /\ a.res.tag = "Ok" =>
                StoreThrough(a.value, a.res.step, x)
                    = StoreThrough(g.value, g.res.step, x)

\* write indexing past the end of a Vector that holds elements
C7_Witness ==
    /\ out.op = "index_mut"
    /\ is_vector(Self)
    /\ Len(Self.items) > 0
    /\ IsPosIdx(out.idx)
    /\ out.idx.i > Len(Self.items)
    /\ out.res = Ok(Pos(out.idx.i))

(* C8: insert-then-read ordering: on a Map, get(k) for an absent key finds *)
(* no key; a get(k) that immediately follows a successful get_or_insert(k) *)
(* on the same Value succeeds and returns Null if that call created the    *)
(* slot (the element already there otherwise); a get(k) that immediately   *)
(* follows a write of x through the handle to slot k returns x.            *)
C8_InsertThenRead ==
    [][/\ (out'.op = "get" /\ is_map(At(root, out'.target))
            /\ IsKeyIdx(out'.idx)
            /\ out'.idx.k \notin DOMAIN At(root, out'.target).m) =>
              out'.inner = Err(KeyNotFound) /\ out'.res = None
       /\ (out'.op = "get" /\ out.op = "get_or_insert" /\ out.res.tag = "Some"
            /\ out'.target = out.target /\ StepOf(out'.idx) = StepOf(out.idx)) =>
              /\ out'.res = Some(StepOf(out.idx))
              /\ Child(At(root', out'.target), out'.res.step)
                    = IF Present(Self, out.idx)
                      THEN Child(Self, StepOf(out.idx)) ELSE Null
       /\ (out'.op = "get" /\ out.op = "write"
            /\ Append(out'.target, StepOf(out'.idx)) = out.target) =>
              /\ out'.res = Some(StepOf(out'.idx))
              /\ Child(At(root', out'.target), out'.res.step) = out.x
      ]_vars

\* {} after get_or_insert("b"), a write of 5 through the handle, and get("b")
C8_Witness ==
    /\ calls = 3
    /\ out.op = "get"
    /\ out.target = <<>>
    /\ out.idx = Str("b")
    /\ out.res = Some(Key("b"))
    /\ root = Map([k \in {"b"} |-> Number(5)])

(* C9 as stated: get / get_mut / get_or_insert return the three-way error, *)
(* so that the returned value tells which of NotIndexable, Incompatible    *)
(* IndexType and KeyNotFound occurred.                                     *)
C9_ReturnsThreeWayError ==
    (/\ out.op \in {"get", "get_mut", "get_or_insert"}
     /\ out.inner.tag = "Err") =>
        out.res.err = out.inner.err

(* C9 amended: get / get_mut / get_or_insert return an Option: every       *)
(* failure of the IndexInto method they call (NotIndexable, Incompatible   *)
(* IndexType, KeyNotFound) is returned as the one value None, without a    *)
(* panic, and a success as Some of the same element; the three-way error   *)
(* is what index_into, index_into_mut and index_into_or_insert return.     *)
C9_ReturnsOption ==
    (out.op \in {"get", "get_mut", "get_or_insert"}) =>
        /\ out.inner.tag = "Err" =>
              out.inner.err \in ValueIndexError /\ out.res = None
        /\ out.inner.tag = "Ok" => out.res = Some(out.inner.step)
        /\ out.res.tag \in {"Some", "None"}

\* get with an integer index on a Map: None, not IncompatibleIndexType
C9_Witness ==
    /\ out.op = "get"
    /\ is_map(Self)
    /\ IsPosIdx(out.idx)
    /\ out.inner = Err(IncompatibleIndexType)
    /\ out.res = None

(* C10: get_mut has the semantics of get: it succeeds exactly when get     *)
(* succeeds, fails with the same error kind otherwise, designates the same *)
(* element, leaves the Value unchanged and never inserts or extends.       *)
C10_GetMutIsGet ==
    /\ (out.op = "get_mut") =>
          /\ out.res = get(Self, out.idx)
          /\ out.inner = index_into(out.idx, Self)
          /\ root = pre
          /\ out.res.tag = "Some" =>
                /\ cursor = Append(out.target, out.res.step)
                /\ At(root, cursor) = Child(Self, StepOf(out.idx))
          /\ out.res.tag = "None" => cursor = out.target
    /\ (out.op = "get") =>
          /\ out.res = get_mut(Self, out.idx)
          /\ out.inner = index_into_mut(out.idx, Self)
          /\ root = pre

\* get_mut past the end of a Vector: no element, no extension
C10_Witness ==
    /\ out.op = "get_mut"
    /\ is_vector(Self)
    /\ Len(Self.items) > 0
    /\ IsPosIdx(out.idx)
    /\ out.idx.i >= Len(Self.items)
    /\ out.inner = Err(KeyNotFound)
    /\ Len(Now.items) = Len(Self.items)

-----------------------------------------------------------------------------
(* Vocabulary of the properties of Number.                                 *)

\* the integer an integer Number denotes
Denotes(n) == IF n.v = "PosInt" THEN n.n ELSE n.n - Pow2(WordBits)

\* the integer Numbers whose integer is a value of T
InRange(T, n) == is_integer(n) /\ Denotes(n) \in MIN(T)..MAX(T)

Abs(z) == IF z < 0 THEN -z ELSE z

-----------------------------------------------------------------------------
(* C11: round-trip construction: for every native integer type T with a    *)
(* From implementation and every value v of T, Number::from(v) is PosInt   *)
(* when v >= 0 and NegInt when v < 0, and both as_T_exact and get_T of it  *)
(* return Some(v).                                                         *)
C11_RoundTrip ==
    nout.m = "from" =>
        /\ num = nout.res
        /\ num.v = (IF nout.arg >= 0 THEN "PosInt" ELSE "NegInt")
        /\ as_T_exact(nout.T, num) = SomeOf(nout.arg)
        /\ get_T(nout.T, num) = SomeOf(nout.arg)

\* the smallest value of a type narrower than the word: sign-extended
C11_Witness ==
    /\ nout.m = "from"
    /\ nout.T.name = "iN"
    /\ nout.arg = MIN(nout.T)
    /\ num = NegInt(Pow2(WordBits) - Pow2(nout.T.bits - 1))
    /\ as_T_exact(nout.T, num) = SomeOf(MIN(nout.T))

(* C12: integer encoding: PosInt(m) denotes m and NegInt(k) denotes        *)
(* k - 2^64; the two variants denote exactly the integers of               *)
(* [-2^64, 2^64 - 1], each by one (variant, payload) pair; get_i128 and    *)
(* as_i128 return the denoted integer and Debug prints it.                 *)
C12_IntegerEncoding ==
    is_integer(num) =>
        /\ (nout.m = "get" /\ nout.T = i128) =>
              /\ nout.res = SomeOf(Denotes(num))
              /\ nout.res.x \in (-Pow2(WordBits))..(Pow2(WordBits) - 1)
              /\ \A other \in Integers64 :
                    get_i128(other) = nout.res => other = num
              /\ \A z \in (-Pow2(WordBits))..(Pow2(WordBits) - 1) :
                    \E other \in Integers64 : get_i128(other) = SomeOf(z)
        /\ (nout.m = "as" /\ nout.T = i128) => nout.res = Denotes(num)
        /\ nout.m = "fmt" =>
              nout.res = [head |-> "Integer", minus |-> Denotes(num) < 0,
                          digits |-> Abs(Denotes(num))]

\* NegInt(0) is -2^64, printed with the literal of the source
C12_Witness ==
    /\ nout.m = "fmt"
    /\ num = NegInt(0)
    /\ nout.res.minus
    /\ nout.res.digits = Pow2(WordBits)

(* C13: for every Number n and native integer type T, fits_in_T(n) is true *)
(* exactly when n is PosInt or NegInt and its integer lies in              *)
(* [T::MIN, T::MAX]; get_T(n) is Some(that integer) exactly then and None  *)
(* otherwise; one past each boundary is rejected and no NegInt fits an     *)
(* unsigned type.                                                          *)
C13_FitsInAndGet ==
    /\ (nout.m = "fits_in" /\ ~nout.T.float) =>
          /\ nout.res = InRange(nout.T, num)
          /\ (num.v = "PosInt" /\ num.n = MAX(nout.T) + 1) => ~nout.res
          /\ (num.v = "NegInt" /\ Denotes(num) = MIN(nout.T) - 1) => ~nout.res
          /\ (num.v = "NegInt" /\ ~nout.T.signed) => ~nout.res
    /\ (nout.m = "get" /\ ~nout.T.float) =>
          /\ nout.res = (IF InRange(nout.T, num) THEN SomeOf(Denotes(num))
                         ELSE NoneOf)
          /\ is_some(nout.res) = fits_in(nout.T, num)

\* NegInt(i64::MIN as u64 - 1) does not fit i64
C13_Witness ==
    /\ nout.m = "fits_in"
    /\ nout.T = i64
    /\ num = NegInt(int_as(u64, MIN(i64)) - 1)
    /\ nout.res = FALSE

(* C14: get_<T> and fits_in_<T> are same-domain only: for an integer       *)
(* Number get_f32 and get_f64 return None, for a Float, NaN or Inf every   *)
(* integer getter returns None, whatever the magnitude, and fits_in_<T> is *)
(* false across the domains.                                               *)
C14_SameDomainOnly ==
    /\ (nout.m = "get" /\ is_integer(num) = nout.T.float) => nout.res = NoneOf
    /\ (nout.m = "fits_in" /\ is_integer(num) = nout.T.float) => nout.res = FALSE

\* Float(3.0).get_i8() is None
C14_Witness ==
    /\ nout.m = "get"
    /\ nout.T = iN(WordBits - 1)
    /\ num = Float(Finite(F64, FALSE, 3 * Pow2(FracBits)))
    /\ nout.res = NoneOf

(* C15 as stated: NaN and Infinity never convert via as_<T>_exact into any *)
(* type: for NaN, Inf{negative: false} and Inf{negative: true} every       *)
(* as_<T>_exact, the integer targets and f32 and f64, returns None.        *)
C15_NaNInfNeverExact ==
    (nout.m = "as_exact" /\ num.v \in {"NaN", "Inf"}) => nout.res = NoneOf

(* C15 amended: for NaN and both infinities every as_<T>_exact with an     *)
(* integer target returns None; as_f32_exact and as_f64_exact return       *)
(* Some(NaN) for NaN and Some of the infinity of the same sign for Inf.    *)
C15_NaNInfExactIntegerOnly ==
    (nout.m = "as_exact" /\ num.v \in {"NaN", "Inf"}) =>
        IF ~nout.T.float THEN nout.res = NoneOf
        ELSE IF num.v = "NaN" THEN nout.res = SomeOf(NAN(nout.T))
        ELSE IF num.negative THEN nout.res = SomeOf(NEG_INFINITY(nout.T))
        ELSE nout.res = SomeOf(INFINITY(nout.T))

\* Inf{negative: true}.as_f32_exact() is Some(f32::NEG_INFINITY)
C15_Witness ==
    /\ nout.m = "as_exact"
    /\ nout.T = F32
    /\ num = Inf(TRUE)
    /\ nout.res = SomeOf(NEG_INFINITY(F32))

\* the odd factor of a magnitude: its significant bits
RECURSIVE OddPart(_)
OddPart(q) == IF q = 0 THEN 0 ELSE IF q % 2 = 0 THEN OddPart(q \div 2) ELSE q

\* the integer z is a value of the float type ty
ExactIn(ty, z) == OddPart(Abs(z)) < Pow2(ty.mant) /\ Abs(z) < Pow2(ty.top)

\* the float of type ty whose value is the integer z
FloatOf(ty, z) == Finite(ty, z < 0, Abs(z) * Pow2(FracBits))

(* C16: integer-to-float exact conversion: for every integer Number over   *)
(* [-2^64, 2^64 - 1], as_f64_exact (as_f32_exact) returns Some(f) if and   *)
(* only if the integer is exactly representable in f64 (f32), f then has   *)
(* that value, and None for every integer the cast would round, u64::MAX   *)
(* and -(2^64 - 1) included.                                               *)
C16_IntegerToFloatExact ==
    (nout.m = "as_exact" /\ nout.T.float /\ is_integer(num)) =>
        nout.res = (IF ExactIn(nout.T, Denotes(num))
                    THEN SomeOf(FloatOf(nout.T, Denotes(num)))
                    ELSE NoneOf)

(* C17: float-to-integer exact conversion: for every Float(x) and every    *)
(* native integer type T, as_T_exact returns Some(k) if and only if x has  *)
(* no fractional part and lies in [T::MIN, T::MAX], and k then equals x:   *)
(* the signed minimum converts, -0.0 gives Some(0), any other negative     *)
(* float gives None for an unsigned target, as does a magnitude of 2^64    *)
(* (2^128 for the 128-bit targets) and above.                              *)
C17_FloatToIntegerExact ==
    (nout.m = "as_exact" /\ ~nout.T.float /\ num.v = "Float") =>
        LET whole == num.x.q % Pow2(FracBits) = 0
            k == (IF num.x.neg THEN -1 ELSE 1) * (num.x.q \div Pow2(FracBits)) IN
        nout.res = (IF whole /\ k \in MIN(nout.T)..MAX(nout.T) THEN SomeOf(k)
                    ELSE NoneOf)

\* r is a value of the native type T
IsValueOf(T, r) ==
    IF ~T.float THEN r \in Values(T)
    ELSE /\ r.ty = T
         /\ \/ r.c \in {"nan", "inf"}
            \/ /\ r.c = "finite"
               /\ OddPart(r.q) < Pow2(T.mant)
               /\ r.q < Pow2(T.top + FracBits)

(* C18: as_<T> is total: for every Number and every native numeric type T  *)
(* it returns a value of T; NaN gives 0 for an integer target and NaN for  *)
(* a float target; Inf{negative: false} gives T::MAX and Inf{negative:     *)
(* true} T::MIN for an integer target (0 for an unsigned one), and the     *)
(* infinity of the same sign for a float target.                           *)
C18_AsIsTotal ==
    nout.m = "as" =>
        /\ IsValueOf(nout.T, nout.res)
        /\ num.v = "NaN" =>
              nout.res = (IF nout.T.float THEN NAN(nout.T) ELSE 0)
        /\ (num.v = "Inf" /\ ~num.negative) =>
              nout.res = (IF nout.T.float THEN INFINITY(nout.T) ELSE MAX(nout.T))
        /\ (num.v = "Inf" /\ num.negative) =>
              /\ nout.res = (IF nout.T.float THEN NEG_INFINITY(nout.T)
                             ELSE MIN(nout.T))
              /\ (~nout.T.float /\ ~nout.T.signed) => nout.res = 0

\* Inf{negative: true}.as_u64() is 0
C18_Witness ==
    /\ nout.m = "as"
    /\ nout.T = u64
    /\ num.v = "Inf"
    /\ num.negative
    /\ nout.res = 0

(* C19: lossy integer narrowing wraps per two's complement: for every      *)
(* integer Number denoting z and every integer target T of width w,        *)
(* as_T is the value of T congruent to z modulo 2^w.                       *)
C19_NarrowingWraps ==
    (nout.m = "as" /\ ~nout.T.float /\ is_integer(num)) =>
        /\ nout.res \in Values(nout.T)
        /\ (nout.res - Denotes(num)) % Pow2(nout.T.bits) = 0

\* NegInt(0).as_u128() is 2^128 - 2^64
C19_Witness ==
    /\ nout.m = "as"
    /\ nout.T = u128
    /\ num.v = "NegInt"
    /\ num.n = 0
    /\ nout.res = Pow2(2 * WordBits) - Pow2(WordBits)

(* C20: Number equality is structural per variant: two Numbers are equal   *)
(* if and only if they are the same variant with equal payload, Float      *)
(* payloads compared as floats (+0.0 == -0.0); NaN == NaN is true; Numbers *)
(* of different variants are never equal, even at equal value.             *)
C20_EqualityIsStructural ==
    nout.m = "eq" =>
        /\ nout.res =
              /\ num.v = nout.arg.v
              /\ CASE num.v \in {"PosInt", "NegInt"} -> num.n = nout.arg.n
                   [] num.v = "Float" ->
                        /\ num.x.q = nout.arg.x.q
                        /\ num.x.neg = nout.arg.x.neg \/ num.x.q = 0
                   [] num.v = "NaN" -> TRUE
                   [] num.v = "Inf" -> num.negative = nout.arg.negative
        /\ num.v # nout.arg.v => ~nout.res

\* NaN == NaN
C20_Witness ==
    /\ nout.m = "eq"
    /\ num.v = "NaN"
    /\ nout.arg.v = "NaN"
    /\ nout.res = TRUE

-----------------------------------------------------------------------------
(* C21: hash is consistent with equality: for every pair of Numbers a, b   *)
(* obtainable from the public constructors, a == b implies that hash feeds *)
(* the hasher the same data for a and b; Number::from(+0.0) and            *)
(* Number::from(-0.0) hash identically, and so do the Numbers made from    *)
(* any two NaN inputs, f32 or f64.                                         *)
C21_HashConsistentWithEq ==
    nout.m = "hash" =>
        /\ \A other \in Numbers : eq(num, other) => hash(other) = nout.res
        /\ num = from_f64(Finite(F64, FALSE, 0)) =>
              /\ eq(num, from_f64(Finite(F64, TRUE, 0)))
              /\ nout.res = hash(from_f64(Finite(F64, TRUE, 0)))
        /\ num = from_f64(NAN(F64)) =>
              /\ eq(num, from_f32(NAN(F32)))
              /\ nout.res = hash(from_f32(NAN(F32)))

\* -0.0 feeds the bits of +0.0
C21_Witness ==
    /\ nout.m = "hash"
    /\ num = Float(Finite(F64, TRUE, 0))
    /\ nout.res = <<0>>
    /\ nout.res = hash(Float(Finite(F64, FALSE, 0)))

(* C22: float construction invariant: for every f32 or f64 input v,        *)
(* Number::from(v) is NaN if v is NaN, Inf{negative: signbit(v)} if v is   *)
(* infinite and Float(v widened to f64) otherwise; no Number produced by a *)
(* From constructor is a Float holding NaN or an infinity, and the result  *)
(* is one of the five variants.                                            *)
C22_FloatConstruction ==
    /\ nout.m = "from_float" =>
          /\ num = nout.res
          /\ num = (IF nout.arg.c = "nan" THEN NaN
                    ELSE IF nout.arg.c = "inf" THEN Inf(nout.arg.neg)
                    ELSE Float(Finite(F64, nout.arg.neg, nout.arg.q)))
    /\ nout.m \in {"from", "from_float"} =>
          /\ num.v \in {"PosInt", "NegInt", "Float", "NaN", "Inf"}
          /\ num.v = "Float" => num.x.c = "finite" /\ num.x.ty = F64

\* Number::from(f32::NEG_INFINITY) is Inf{negative: true}
C22_Witness ==
    /\ nout.m = "from_float"
    /\ nout.T = F32
    /\ nout.arg = NEG_INFINITY(F32)
    /\ num = Inf(TRUE)

\* the sign of the value of a Number other than NaN
SignOf(n) ==
    CASE n.v = "PosInt" -> IF n.n > 0 THEN 1 ELSE 0
      [] n.v = "NegInt" -> -1
      [] n.v = "Float" -> IF n.x.q = 0 THEN 0 ELSE IF n.x.neg THEN -1 ELSE 1
      [] n.v = "Inf" -> IF n.negative THEN -1 ELSE 1

(* C23: sign predicates: is_positive is true exactly when the value is     *)
(* > 0, is_negative exactly when it is < 0 (every NegInt), is_zero exactly *)
(* for PosInt(0), Float(+0.0) and Float(-0.0); at most one of the three    *)
(* holds, exactly one for every Number but NaN, none for NaN.              *)
C23_SignPredicates ==
    /\ nout.m = "is_positive" => nout.res = (num.v # "NaN" /\ SignOf(num) = 1)
    /\ nout.m = "is_negative" => nout.res = (num.v # "NaN" /\ SignOf(num) = -1)
    /\ nout.m = "is_zero" =>
          /\ nout.res = (num.v # "NaN" /\ SignOf(num) = 0)
          /\ nout.res = (num \in {PosInt(0), Float(Finite(F64, FALSE, 0)),
                                  Float(Finite(F64, TRUE, 0))})
    /\ nout.m \in {"is_positive", "is_negative", "is_zero"} =>
          LET holding == {p \in {"positive", "negative", "zero"} :
                             \/ p = "positive" /\ is_positive(num)
                             \/ p = "negative" /\ is_negative(num)
                             \/ p = "zero" /\ is_zero(num)} IN
          Cardinality(holding) = (IF num.v = "NaN" THEN 0 ELSE 1)

\* -0.0 is not negative
C23_Witness ==
    /\ nout.m = "is_negative"
    /\ num = Float(Finite(F64, TRUE, 0))
    /\ nout.res = FALSE

(* C25: apart from the folded zeros and NaN, hash feeds the hasher the     *)
(* variant discriminant together with the payload bits, so that two        *)
(* Numbers of different variants with the same payload, such as PosInt(k)  *)
(* and NegInt(k), feed different data to the hasher.                       *)
C25_HashFeedsDiscriminant ==
    (nout.m = "hash" /\ is_integer(num)) =>
        \A other \in Integers64 :
            (other.v # num.v /\ other.n = num.n) => hash(other) # nout.res

(* C30: comparison with integer primitives agrees with comparison of       *)
(* Numbers: for every integer Number n and every primitive p of a native   *)
(* integer type of at most 64 bits, n == p, p == n and                     *)
(* n == Number::from(p) have the same truth value, which is true exactly   *)
(* when n denotes the integer p.                                           *)
C30_PrimitiveEqAgrees ==
    (nout.m \in {"eq_primitive", "primitive_eq"} /\ is_integer(num)) =>
        /\ nout.res = (Denotes(num) = nout.arg)
        /\ nout.res = eq(num, from(nout.T, nout.arg))
        /\ eq_primitive(nout.T, num, nout.arg) = primitive_eq(nout.T, nout.arg, num)

\* NegInt(u64::MAX) == -1i8
C30_Witness ==
    /\ nout.m = "eq_primitive"
    /\ nout.T.name = "iN"
    /\ num = NegInt(Pow2(WordBits) - 1)
    /\ nout.arg = -1
    /\ nout.res = TRUE

-----------------------------------------------------------------------------
(* Vocabulary of the properties of the tree.                               *)

\* the paths of the Values of the tree under v
RECURSIVE Paths(_)
Paths(v) ==
    {<<>>} \cup
    (IF is_vector(v)
     THEN UNION {{<<Pos(j - 1)>> \o p : p \in Paths(v.items[j])} :
                    j \in 1..Len(v.items)}
     ELSE IF is_map(v)
     THEN UNION {{<<Key(k)>> \o p : p \in Paths(v.m[k])} : k \in DOMAIN v.m}
     ELSE {})

\* the Values of the tree under v
Nodes(v) == {At(v, p) : p \in Paths(v)}

IsPrefix(p, q) == Len(p) <= Len(q) /\ SubSeq(q, 1, Len(p)) = p

KindNames == {"null", "boolean", "number", "string", "vector", "map"}

\* the predicate and the accessor of each kind, applied to v
KindTable(v) ==
    {[name |-> "null", p |-> is_null(v), a |-> is_some(as_null(v))],
     [name |-> "boolean", p |-> is_boolean(v), a |-> is_some(as_boolean(v))],
     [name |-> "number", p |-> is_number(v), a |-> is_some(as_number(v))],
     [name |-> "string", p |-> is_string(v), a |-> is_some(as_string(v))],
     [name |-> "vector", p |-> is_vector(v), a |-> is_some(as_vector(v))],
     [name |-> "map", p |-> is_map(v), a |-> is_some(as_map(v))]}

IndexingOps == {"get", "get_mut", "get_or_insert", "index", "index_mut"}
InsertingOps == {"get_or_insert", "index_mut"}

-----------------------------------------------------------------------------
(* C24: type tag coherence.  For every Value a constructor produces and    *)
(* every Value of the tree after any sequence of indexing operations,      *)
(* type_name() is one of "null", "boolean", "number", "string", "vector",  *)
(* "map", exactly one of the is_<kind> predicates is true and it is the    *)
(* one type_name() names, and the as_<kind> accessor of that kind returns  *)
(* a value while every other accessor returns None.                        *)
C24_TypeTagCoherence ==
    \A v \in Nodes(root) :
        /\ type_name(v) \in KindNames
        /\ Cardinality({e \in KindTable(v) : e.p}) = 1
        /\ \A e \in KindTable(v) :
            /\ e.p <=> (e.name = type_name(v))
            /\ e.a <=> (e.name = type_name(v))
        /\ is_some(as_str(v)) <=> (type_name(v) = "string")

\* a Map that holds a Vector the caller wrote and a Null an insertion made
C24_Witness ==
    /\ calls = MaxCalls
    /\ is_map(root)
    /\ \E v \in Nodes(root) : is_null(v) /\ as_null(v) = SomeOf("()")
    /\ \E v \in Nodes(root) :
        is_vector(v) /\ as_vector(v) = SomeOf(<<>>) /\ as_map(v) = NoneOf

-----------------------------------------------------------------------------
(* C26: containers only grow under indexing.  Over a call of get, get_mut, *)
(* get_or_insert, operator read or operator write, or a write through the  *)
(* handle, every Vector of the tree that the write does not replace keeps  *)
(* or increases its length and every such Map keeps all its keys; the      *)
(* length changes only in the Vector a get_or_insert or operator write     *)
(* indexes with an index >= its length, and the key set only in the Map    *)
(* such a call indexes with an absent key.                                 *)
C26_ContainersOnlyGrow ==
    \A p \in Paths(pre) :
        LET old == At(pre, p)
            replaced == out.op = "write" /\ IsPrefix(out.target, p) IN
        (~Scalar(old) /\ ~replaced) =>
            /\ p \in Paths(root)
            /\ At(root, p).kind = old.kind
            /\ is_vector(old) =>
                /\ Len(At(root, p).items) >= Len(old.items)
                /\ Len(At(root, p).items) # Len(old.items) =>
                    /\ out.op \in InsertingOps
                    /\ p = out.target
                    /\ IsPosIdx(out.idx)
                    /\ out.idx.i >= Len(old.items)
            /\ is_map(old) =>
                /\ DOMAIN old.m \subseteq DOMAIN At(root, p).m
                /\ DOMAIN At(root, p).m # DOMAIN old.m =>
                    /\ out.op \in InsertingOps
                    /\ p = out.target
                    /\ IsKeyIdx(out.idx)
                    /\ out.idx.k \notin DOMAIN old.m

\* get_or_insert(2) on an empty Vector the caller wrote into a Map: the
\* Vector grows to three elements and the Map keeps its key set
C26_Witness ==
    /\ out.op = "get_or_insert"
    /\ is_map(pre)
    /\ out.target # <<>>
    /\ is_vector(Self)
    /\ Len(Self.items) = 0
    /\ out.idx = Usize(2)
    /\ Len(Now.items) = 3
    /\ DOMAIN root.m = DOMAIN pre.m

-----------------------------------------------------------------------------
(* C27: indexing never changes the kind of the indexed Value and never     *)
(* auto-vivifies.  After get, get_mut, get_or_insert, operator read or     *)
(* operator write, successful or not, the Value indexed has the variant it *)
(* had; get_or_insert on a Null, the Null slot an earlier get_or_insert    *)
(* created included, fails with NotIndexable and leaves the Null a Null,   *)
(* and operator write on it panics.                                        *)
C27_KindUnchanged ==
    out.op \in IndexingOps =>
        /\ out.target \in Paths(root)
        /\ type_name(Now) = type_name(Self)
        /\ (is_null(Self) /\ out.op = "get_or_insert") =>
            /\ out.inner = Err(NotIndexable)
            /\ out.res = None
            /\ is_null(Now)
            /\ root = pre
        /\ (is_null(Self) /\ out.op = "index_mut") =>
            /\ out.res = panic_not_indexable("null")
            /\ root = pre

\* m["a"]["b"] on an empty Map: the second get_or_insert is on the Null the
\* first created
C27_Witness ==
    /\ out.op = "get_or_insert"
    /\ is_map(pre)
    /\ DOMAIN pre.m = {"a"}
    /\ is_null(pre.m["a"])
    /\ out.target = <<Key("a")>>
    /\ out.idx = Str("b")
    /\ out.res = None
    /\ root = pre

-----------------------------------------------------------------------------
(* C28: get_or_insert preserves existing entries and is idempotent.  When  *)
(* the key is present or the position in bounds, get_or_insert leaves the  *)
(* whole tree unchanged and returns the existing element, not a Null; and  *)
(* a second get_or_insert with the same index, with no write through the   *)
(* handle in between, returns the same element and changes nothing.        *)
C28_GetOrInsertIdempotent ==
    out.op = "get_or_insert" =>
        /\ Present(Self, out.idx) =>
            /\ root = pre
            /\ out.res = Some(StepOf(out.idx))
            /\ Child(Now, out.res.step) = Child(Self, StepOf(out.idx))
        /\ LET again == get_or_insert(Now, out.idx) IN
            /\ again.value = Now
            /\ again.res = out.res

\* get_or_insert("a") on a Map whose "a" holds a Number
C28_Witness ==
    /\ out.op = "get_or_insert"
    /\ is_map(Self)
    /\ Present(Self, out.idx)
    /\ is_number(Child(Self, StepOf(out.idx)))
    /\ is_number(Child(Now, out.res.step))

-----------------------------------------------------------------------------
(* C29: read access has no effect on the tree.  get and operator read      *)
(* leave the whole tree unchanged in every case; when the entry is missing *)
(* the Null that v[i] returns is the shared constant and not an element of *)
(* the container: a get(i) that follows still finds no entry, and the      *)
(* length or the key set is what it was.                                   *)
C29_ReadHasNoEffect ==
    out.op \in {"get", "index"} =>
        /\ root = pre
        /\ (out.op = "index" /\ Absent(Self, out.idx)) =>
            /\ out.res = Ok(Static)
            /\ ~HasChild(Now, StepOf(out.idx))
            /\ get(Now, out.idx) = None
            /\ index_into(out.idx, Now) = Err(KeyNotFound)
        /\ (out.op = "get" /\ Absent(Self, out.idx)) =>
            /\ out.res = None
            /\ ~HasChild(Now, StepOf(out.idx))

\* v[4] on a Vector of two elements
C29_Witness ==
    /\ out.op = "index"
    /\ is_vector(Self)
    /\ Len(Self.items) = 2
    /\ out.idx = Usize(4)
    /\ out.res = Ok(Static)
    /\ Len(Now.items) = 2

====
